---- MODULE Spec2Model ----
(***************************************************************************)
(* Order submission, notification fan-out and order maintenance of the     *)
(* TastyBite restaurant backend.                                            *)
(*                                                                         *)
(* The repository holds two revisions of the server.  `variant` says which *)
(* one is deployed:                                                         *)
(*   "socketio"  src/SOCKET.IO   (verify, orders, PATCH status, users)      *)
(*   "server"    src/server.js   (verify with SMS, orders, no PATCH)        *)
(* A request handler is cut at its awaits: the code between two awaits is   *)
(* one atomic step of the Node event loop, and other requests, dashboard    *)
(* connects and clock ticks interleave at the awaits.                       *)
(* The module further covers the register route of src/SOCKET.IO and the   *)
(* two service worker scripts of src/unnamed/part_001, each under a         *)
(* specification of its own.                                                *)
(***************************************************************************)
EXTENDS Integers, Sequences, FiniteSets, TLC

(* ------------------------------ bounds -------------------------------- *)
MaxSubmits == 2   \* submissions to POST /api/payment/verify in one run
MaxStoreSubmits == 1   \* submissions in one run of SpecStore
MaxClock == 2     \* ticks of the wall clock
MaxOps == 2       \* GET/DELETE/PATCH order requests in one run
MaxMaintSubmits == 2   \* submissions in one run of SpecMaint
MaxRegisters == 2 \* requests to POST /api/users/register in one run

(* ------------------------------ universe ------------------------------ *)
Undefined == "undefined"
NoTime == -1
NoId == 0
MalformedId == -1   \* an :id that is no ObjectId

Variants == {"socketio", "server"}
Slots == {1, 2}             \* verify handlers that can be in flight at once
OrderIds == 1..MaxSubmits
Sockets == {"s1", "s2"}
References == {"PSK1", "PSK2"}
FutureDate == MaxClock + 1

\* req.body.orderData as the client sends it.  `present` is FALSE when the
\* body carries no orderData.  status and createdAt are fields a client may
\* add to the documented payload.
NoOrderData ==
  [present |-> FALSE, name |-> Undefined, totalAmount |-> 0,
   status |-> Undefined, createdAt |-> NoTime]

OrderDatas ==
  { NoOrderData,
    [present |-> TRUE, name |-> "Ada", totalAmount |-> 2,
     status |-> Undefined, createdAt |-> NoTime],
    [present |-> TRUE, name |-> "Ada", totalAmount |-> 5,
     status |-> "delivered", createdAt |-> FutureDate] }

\* Outcome of axios.get on the gateway's verify endpoint: the call throws
\* (network error, timeout, non-2xx), or returns a body {status, data} whose
\* data, when present, carries {status, amount, customer}.
GatewayThrow ==
  [thrown |-> TRUE, ok |-> FALSE, hasData |-> FALSE, status |-> Undefined,
   amount |-> 0, hasCustomer |-> FALSE]

GatewayBody(ok, hasData, status, amount, hasCustomer) ==
  [thrown |-> FALSE, ok |-> ok, hasData |-> hasData, status |-> status,
   amount |-> amount, hasCustomer |-> hasCustomer]

GatewayOutcomes ==
  { GatewayThrow,
    GatewayBody(FALSE, FALSE, Undefined, 0, FALSE),
    GatewayBody(TRUE, FALSE, Undefined, 0, FALSE),
    GatewayBody(TRUE, TRUE, "failed", 200, TRUE),
    GatewayBody(TRUE, TRUE, "success", 200, TRUE),
    GatewayBody(TRUE, TRUE, "success", 200, FALSE) }

NotCalled ==
  [thrown |-> FALSE, ok |-> FALSE, hasData |-> FALSE, status |-> "not-called",
   amount |-> 0, hasCustomer |-> FALSE]

\* An Order document.  deliveredAt and dispatchedAt are NoTime until set.
NoOrder ==
  [id |-> NoId, name |-> Undefined, totalAmount |-> 0, reference |-> Undefined,
   status |-> Undefined, createdAt |-> NoTime, dispatchedAt |-> NoTime,
   deliveredAt |-> NoTime]

\* res: status 0 means no response has been sent yet.
NoRes == [status |-> 0, success |-> FALSE]

IdleReq ==
  [pc |-> "idle", reference |-> Undefined, orderData |-> NoOrderData,
   gwCalled |-> FALSE, gateway |-> NotCalled, order |-> NoOrder,
   saved |-> FALSE, sms |-> "none", push |-> "none", emitted |-> <<>>,
   res |-> NoRes, sent |-> 0]

\* A status in a PATCH body that is no string (a JSON number, say).
NonStringStatus == "<number>"

\* Statuses a PATCH body may carry (Undefined: the body has no status).
PatchStatuses ==
  {"Delivered", "DISPATCHED", "processing", Undefined, NonStringStatus}

NoOp ==
  [op |-> "none", reference |-> Undefined, id |-> NoId, status |-> Undefined,
   http |-> 0]

(* -------------------------- service worker ---------------------------- *)
\* The two scripts of src/unnamed/part_001, named by their CACHE_NAME.
WorkerVariants == {"tastybite-cache-v2", "tastybite-cache-v3"}

\* A URL path is its sequence of segments: "/api/orders" is <<"api", "orders">>.
ASSETS ==
  { <<"">>, <<"index.html">>, <<"admin-dashboard.html">>, <<"manifest.json">>,
    <<"uploads", "restaurant.jpg">>, <<"uploads", "food.png">> }

OfflinePath == <<"offline.html">>
IndexPath == <<"index.html">>

RequestPaths ==
  { IndexPath, OfflinePath, <<"menu.html">>, <<"api-docs.html">>,
    <<"api", "orders">> }

\* "self" is location.origin.
Origins == {"self", "other"}

Requests == [origin : Origins, path : RequestPaths, method : {"GET", "POST"}]

\* A cache entry is keyed by the URL of the request it was put under.
Entry(request) == [origin |-> request.origin, path |-> request.path]

AssetEntries == {[origin |-> "self", path |-> p] : p \in ASSETS}

\* What fetch(event.request) settles to: it rejects, or resolves to a
\* response with a status and a type (an opaque response has status 0).
NetworkFailure == [ok |-> FALSE, status |-> 0, type |-> "error"]

NetworkOutcomes ==
  { NetworkFailure,
    [ok |-> TRUE, status |-> 200, type |-> "basic"],
    [ok |-> TRUE, status |-> 404, type |-> "basic"],
    [ok |-> TRUE, status |-> 200, type |-> "cors"],
    [ok |-> TRUE, status |-> 0, type |-> "opaque"] }

\* The types a response to a request can have: a same-origin request gets a
\* basic response unless it is redirected to another origin.
ResponseTypes(request) ==
  IF request.origin = "self" THEN {"basic", "cors"} ELSE {"cors", "opaque"}

NoCaches == [name \in {} |-> {}]

\* Entries the earlier worker script with CACHE_NAME "tastybite-cache-v2"
\* (src/unnamed/part_000), which puts every GET response it fetches, can
\* have left in its cache.
EarlierEntries ==
  { {}, {[origin |-> "self", path |-> <<"api", "orders">>]},
    {[origin |-> "other", path |-> IndexPath]} }

\* The CacheStorage the worker script finds when it is installed: nothing,
\* the cache of the v1 script, or the cache of the earlier v2 script.
EarlierCaches ==
  {NoCaches, "tastybite-cache-v1" :> AssetEntries}
    \cup {"tastybite-cache-v2" :> (AssetEntries \cup e) : e \in EarlierEntries}

NoRequest == [origin |-> "self", path |-> <<>>, method |-> "none"]

\* from: "network", "cache", "offline" (the fallback of the catch) or
\* "error" (respondWith got no response).
NoFetch ==
  [request |-> NoRequest, network |-> NetworkFailure, from |-> "none",
   status |-> 0]

(* ------------------------------- users -------------------------------- *)
Usernames == {"ada", "bob"}

NoUser == [id |-> NoId, username |-> Undefined]

\* res of a register handler: status 0 means no response yet.
NoRegRes == [status |-> 0, message |-> Undefined]

\* error: what the catch block has logged ("none", "store": the store call
\* failed, "duplicate-key": the unique index rejected the insert).
IdleReg ==
  [pc |-> "idle", username |-> Undefined, user |-> NoUser, res |-> NoRegRes,
   error |-> "none"]

(* ------------------------------- state -------------------------------- *)
VARIABLES
  variant,   \* which revision of the server runs
  now,       \* the wall clock read by Date.now / new Date()
  orders,    \* the Order collection: a set of documents
  nextId,    \* next _id handed out by `new Order`
  sessions,  \* dashboard sockets connected to io
  req,       \* the verify handlers in flight, each at its await
  submits,   \* number of verify requests received
  verified,  \* references the gateway has reported a successful payment for
  ops,       \* number of GET/DELETE/PATCH order requests served
  lastOp,    \* the last GET/DELETE/PATCH order request and its response
  CACHE_NAME,  \* the service worker script in use, named by its cache
  swState,   \* lifecycle of the service worker
  caches,    \* the origin's CacheStorage: cache name -> entries
  lastFetch, \* the last fetch event and what the worker answered
  users,     \* the User collection: a set of documents
  reg,       \* the register handlers in flight, each at its await
  nextUserId,  \* next _id handed out by `new User`
  registers, \* number of register requests received
  usernameUnique  \* the User schema puts a unique index on username

serverVars ==
  <<variant, now, orders, nextId, sessions, req, submits, verified, ops, lastOp>>
workerVars == <<CACHE_NAME, swState, caches, lastFetch>>
userVars == <<users, reg, nextUserId, registers, usernameUnique>>
vars == <<serverVars, workerVars, userVars>>

\* No service worker event has happened on a fresh origin.
WorkerIdle ==
  /\ CACHE_NAME = "tastybite-cache-v3"
  /\ swState = "parsed"
  /\ caches = NoCaches
  /\ lastFetch = NoFetch

\* No register request has been received.
UsersIdle ==
  /\ users = {}
  /\ reg = [i \in Slots |-> IdleReg]
  /\ nextUserId = 1
  /\ registers = 0
  /\ usernameUnique = FALSE

\* The server has just started on an empty Order collection.
ServerIdle ==
  /\ now = 0
  /\ orders = {}
  /\ nextId = 1
  /\ sessions = {}
  /\ req = [i \in Slots |-> IdleReq]
  /\ submits = 0
  /\ verified = {}
  /\ ops = 0
  /\ lastOp = NoOp

Init ==
  /\ variant \in Variants
  /\ ServerIdle
  /\ WorkerIdle
  /\ UsersIdle

(* ------------------------ realtime broadcaster ------------------------ *)
\* io.on("connection")
Connect(s) ==
  /\ s \notin sessions
  /\ sessions' = sessions \cup {s}
  /\ UNCHANGED <<variant, now, orders, nextId, req, submits, verified, ops, lastOp, workerVars, userVars>>

\* socket.on("disconnect")
Disconnect(s) ==
  /\ s \in sessions
  /\ sessions' = sessions \ {s}
  /\ UNCHANGED <<variant, now, orders, nextId, req, submits, verified, ops, lastOp, workerVars, userVars>>

\* io.emit("newOrder", {...}) of the socketio revision: the summary of the
\* in-memory order, delivered to the sessions connected at the call.
NewOrderEvent(order, connected) ==
  [event |-> "newOrder",
   payload |-> [customer |-> order.name, totalAmount |-> order.totalAmount,
                reference |-> order.reference, createdAt |-> order.createdAt,
                status |-> order.status],
   to |-> connected]

\* server.js tests global.io before emitting; the file binds io with
\* `const io`, never on `global`, so global.io is undefined.
GlobalIoDefined == FALSE

\* server.js: global.io.emit("new-order", order)
ServerOrderEvent(order, connected) ==
  [event |-> "new-order",
   payload |-> [customer |-> order.name, totalAmount |-> order.totalAmount,
                reference |-> order.reference, createdAt |-> order.createdAt,
                status |-> order.status],
   to |-> connected]

\* The events the handler emits right before its success response.
Broadcast(v, order, connected) ==
  IF v = "socketio" THEN <<NewOrderEvent(order, connected)>>
  ELSE IF GlobalIoDefined THEN <<ServerOrderEvent(order, connected)>>
  ELSE <<>>

(* ------------------------------- clock -------------------------------- *)
Tick ==
  /\ now < MaxClock
  /\ now' = now + 1
  /\ UNCHANGED <<variant, orders, nextId, sessions, req, submits, verified, ops, lastOp, workerVars, userVars>>

(* -------------------- POST /api/payment/verify ------------------------ *)
Respond(r, status, success) ==
  [r EXCEPT !.pc = "done", !.res = [status |-> status, success |-> success],
            !.sent = r.sent + 1]

\* Mutant: the catch block answers like a rejected payment.
CatchResponse_400(r) == Respond(r, 400, FALSE)

\* Mutant: the catch block logs the error and sends no response.
CatchResponse_LogOnly(r) == [r EXCEPT !.pc = "unanswered"]

\* The handler's catch block.
CatchResponse(r) == Respond(r, 500, FALSE)

\* The gateway's answer reports a successful payment.
GatewaySuccess(g) == ~g.thrown /\ g.hasData /\ g.status = "success"

\* The presence check on req.body.
ValidRequest(v, reference, orderData) ==
  IF v = "socketio" THEN reference # Undefined
  ELSE reference # Undefined /\ orderData.present

\* Handler entry up to the await on axios.get.
Receive(i, reference, orderData) ==
  /\ req[i].pc = "idle"
  /\ submits < MaxSubmits
  /\ submits' = submits + 1
  /\ LET r == [IdleReq EXCEPT !.reference = reference, !.orderData = orderData]
     IN req' = [req EXCEPT ![i] =
                  IF ValidRequest(variant, reference, orderData)
                  THEN [r EXCEPT !.pc = "verifying", !.gwCalled = TRUE]
                  ELSE Respond(r, 400, FALSE)]
  /\ UNCHANGED <<variant, now, orders, nextId, sessions, verified, ops, lastOp, workerVars, userVars>>

\* Mutant: any payment record the gateway returns counts as paid.
VerifyOutcome_AnyData(v, g) ==
  IF g.thrown THEN "error"
  ELSE IF g.hasData THEN "proceed"
  ELSE "reject"

\* What the handler makes of the gateway's answer:
\* "proceed" (build and save the order), "reject" (400) or "error" (catch, 500).
VerifyOutcome(v, g) ==
  IF g.thrown THEN "error"
  ELSE IF v = "socketio"
  THEN IF ~g.hasData THEN "reject"
       ELSE IF g.status = "success" THEN "proceed"
       ELSE "reject"
  ELSE IF ~g.ok THEN "reject"
       ELSE IF ~g.hasData THEN "error"
       ELSE IF g.status # "success" THEN "reject"
       ELSE IF ~g.hasCustomer THEN "error"
       ELSE "proceed"

\* The paths of orderSchema.  Mongoose drops what a document or an update
\* sets outside them.  The socketio revision's schema adds the two
\* timestamps its PATCH route writes.
ServerSchemaPaths ==
  {"name", "totalAmount", "reference", "status", "createdAt"}

SocketioSchemaPaths ==
  ServerSchemaPaths \cup {"dispatchedAt", "deliveredAt"}

SchemaPaths(v) ==
  IF v = "socketio" THEN SocketioSchemaPaths ELSE ServerSchemaPaths

\* The schema's default for status.
DefaultStatus == "pending"

\* new Order({...}) of the handler; t is the clock at construction.
\* socketio: {...orderData, reference, totalAmount: amount / 100,
\* status: "paid"}: the spread lets orderData fill any other path, createdAt
\* among them, before the schema default (Date.now) applies.  The gateway
\* amounts of the model are multiples of 100, so \div is the quotient.
\* server: the listed orderData fields, reference and createdAt: new Date();
\* paymentStatus and paymentChannel are no schema paths; status defaults.
NewOrder(v, reference, orderData, g, id, t) ==
  IF v = "socketio"
  THEN [id |-> id, name |-> orderData.name,
        totalAmount |-> g.amount \div 100, reference |-> reference,
        status |-> "paid",
        createdAt |-> IF orderData.createdAt # NoTime
                      THEN orderData.createdAt ELSE t,
        dispatchedAt |-> NoTime, deliveredAt |-> NoTime]
  ELSE [id |-> id, name |-> orderData.name,
        totalAmount |-> orderData.totalAmount, reference |-> reference,
        status |-> DefaultStatus, createdAt |-> t,
        dispatchedAt |-> NoTime, deliveredAt |-> NoTime]

\* axios.get settles; the handler runs up to the await on order.save().
GatewayReturn(i, g) ==
  /\ req[i].pc = "verifying"
  /\ LET r == [req[i] EXCEPT !.gateway = g]
         out == VerifyOutcome(variant, g)
     IN IF out = "proceed"
        THEN /\ req' = [req EXCEPT ![i] =
                         [r EXCEPT !.pc = "saving",
                                   !.order = NewOrder(variant, r.reference,
                                               r.orderData, g, nextId, now)]]
             /\ nextId' = nextId + 1
        ELSE /\ req' = [req EXCEPT ![i] =
                         IF out = "reject" THEN Respond(r, 400, FALSE)
                         ELSE CatchResponse(r)]
             /\ nextId' = nextId
  /\ verified' = IF GatewaySuccess(g)
                 THEN verified \cup {req[i].reference} ELSE verified
  /\ UNCHANGED <<variant, now, orders, sessions, submits, ops, lastOp, workerVars, userVars>>

\* await order.save() settles.  A rejected save falls to the catch (500).
\* A resolved save has inserted the document; the handler runs on to its
\* next await: the push call (socketio) or the SMS call (server).
\* Mutant: save() is not awaited, so a rejected save goes unnoticed and the
\* handler moves on to its notifications.
AfterSave_NotAwaited(v, r, ok) ==
  IF v = "socketio"
  THEN [r EXCEPT !.saved = ok, !.pc = "push", !.push = "pending"]
  ELSE [r EXCEPT !.saved = ok, !.pc = "sms", !.sms = "pending"]

AfterSave(v, r, ok) ==
  IF ~ok THEN CatchResponse(r)
  ELSE IF v = "socketio"
  THEN [r EXCEPT !.saved = TRUE, !.pc = "push", !.push = "pending"]
  ELSE [r EXCEPT !.saved = TRUE, !.pc = "sms", !.sms = "pending"]

\* Mutant: the store keeps one document per reference; a save replaces the
\* document that already carries the reference.
SaveReturn_OnePerReference(i, ok) ==
  /\ req[i].pc = "saving"
  /\ orders' = IF ok
               THEN {o \in orders : o.reference # req[i].order.reference}
                      \cup {req[i].order}
               ELSE orders
  /\ req' = [req EXCEPT ![i] = AfterSave(variant, @, ok)]
  /\ UNCHANGED <<variant, now, nextId, sessions, submits, verified, ops, lastOp, workerVars, userVars>>

SaveReturn(i, ok) ==
  /\ req[i].pc = "saving"
  /\ orders' = IF ok THEN orders \cup {req[i].order} ELSE orders
  /\ req' = [req EXCEPT ![i] = AfterSave(variant, @, ok)]
  /\ UNCHANGED <<variant, now, nextId, sessions, submits, verified, ops, lastOp, workerVars, userVars>>

\* server.js: the Termii call settles inside its own try/catch; the handler
\* goes on to the OneSignal call.
SmsReturn(i, ok) ==
  /\ req[i].pc = "sms"
  /\ req' = [req EXCEPT ![i] =
              [@ EXCEPT !.sms = IF ok THEN "ok" ELSE "failed",
                        !.pc = "push", !.push = "pending"]]
  /\ UNCHANGED <<variant, now, orders, nextId, sessions, submits, verified, ops, lastOp, workerVars, userVars>>

\* Mutant: a failed push reaches the handler's catch block.
AfterPush_Thrown(v, r, ok, connected) ==
  IF ok
  THEN Respond([r EXCEPT !.push = "ok",
                         !.emitted = r.emitted \o Broadcast(v, r.order, connected)],
               200, TRUE)
  ELSE Respond([r EXCEPT !.push = "failed"], 500, FALSE)

\* What the handler does once the push call has settled: a failed push is
\* logged and the handler carries on like after a successful one.
AfterPush(v, r, ok, connected) ==
  Respond([r EXCEPT !.push = IF ok THEN "ok" ELSE "failed",
                    !.emitted = r.emitted \o Broadcast(v, r.order, connected)],
          200, TRUE)

\* The OneSignal call settles (sendNewOrderNotification catches its own
\* errors; server.js wraps the call in try/catch); then broadcast, respond.
PushReturn(i, ok) ==
  /\ req[i].pc = "push"
  /\ req' = [req EXCEPT ![i] = AfterPush(variant, @, ok, sessions)]
  /\ UNCHANGED <<variant, now, orders, nextId, sessions, submits, verified, ops, lastOp, workerVars, userVars>>

\* The handler returns right after res.json(...): its locals are gone and
\* the slot is free for the next request.
HandlerReturn(i) ==
  /\ req[i].pc = "done"
  /\ req' = [req EXCEPT ![i] = IdleReq]
  /\ UNCHANGED <<variant, now, orders, nextId, sessions, submits, verified, ops, lastOp, workerVars, userVars>>

\* No handler stands between its response and its return.
NoneReturning == lastOp.op = "none" /\ \A i \in Slots : req[i].pc # "done"

(* ------------------------- order maintenance -------------------------- *)
\* String.prototype.toLowerCase on the status strings of the model.
ToLowerCase(s) ==
  CASE s = "Delivered" -> "delivered"
    [] s = "DISPATCHED" -> "dispatched"
    [] OTHER -> s

\* GET /api/orders/:id  (lookup by reference)
GetOrder(reference) ==
  /\ ops < MaxOps
  /\ ops' = ops + 1
  /\ lastOp' = [op |-> "get", reference |-> reference, id |-> NoId,
                status |-> Undefined,
                http |-> IF \E o \in orders : o.reference = reference
                         THEN 200 ELSE 404]
  /\ UNCHANGED <<variant, now, orders, nextId, sessions, req, submits, verified, workerVars, userVars>>

\* Mutant: the delete removes every document that carries the reference of
\* the document with this _id.
DeleteOrder_ByReference(id) ==
  /\ ops < MaxOps
  /\ ops' = ops + 1
  /\ orders' = {o \in orders :
                  \A t \in orders : t.id = id => o.reference # t.reference}
  /\ lastOp' = [op |-> "delete", reference |-> Undefined, id |-> id,
                status |-> Undefined,
                http |-> IF id = MalformedId THEN 500
                         ELSE IF \E o \in orders : o.id = id THEN 200 ELSE 404]
  /\ UNCHANGED <<variant, now, nextId, sessions, req, submits, verified, workerVars, userVars>>

\* DELETE /api/orders/:id  (findByIdAndDelete).  An :id that does not cast
\* to an ObjectId makes the query throw: catch, 500.
DeleteOrder(id) ==
  /\ ops < MaxOps
  /\ ops' = ops + 1
  /\ orders' = {o \in orders : o.id # id}
  /\ lastOp' = [op |-> "delete", reference |-> Undefined, id |-> id,
                status |-> Undefined,
                http |-> IF id = MalformedId THEN 500
                         ELSE IF \E o \in orders : o.id = id THEN 200 ELSE 404]
  /\ UNCHANGED <<variant, now, nextId, sessions, req, submits, verified, workerVars, userVars>>

\* Mutant: the update replaces the timestamps: the one matching the new
\* status is set, the other one is cleared.
StatusUpdates_Replace(o, status, t) ==
  [o EXCEPT !.status = status,
            !.deliveredAt = IF ToLowerCase(status) = "delivered" THEN t ELSE NoTime,
            !.dispatchedAt = IF ToLowerCase(status) = "dispatched" THEN t ELSE NoTime]

\* The update document the PATCH handler builds from the body's status.
StatusUpdates(o, status, t) ==
  IF ToLowerCase(status) = "delivered"
  THEN [o EXCEPT !.status = status,
                 !.deliveredAt = IF "deliveredAt" \in SocketioSchemaPaths
                                 THEN t ELSE @]
  ELSE IF ToLowerCase(status) = "dispatched"
  THEN [o EXCEPT !.status = status,
                 !.dispatchedAt = IF "dispatchedAt" \in SocketioSchemaPaths
                                  THEN t ELSE @]
  ELSE [o EXCEPT !.status = status]

\* status.toLowerCase is a function: the body's status is a string.
HasToLowerCase(status) == status \notin {Undefined, NonStringStatus}

\* Mutant: the handler does not call toLowerCase on the status before the
\* query, so a body without a string status reaches findOneAndUpdate.
UpdateStatus_NoThrow(reference, status) ==
  /\ variant = "socketio"
  /\ ops < MaxOps
  /\ ops' = ops + 1
  /\ LET matches == {o \in orders : o.reference = reference}
         reply(http) == [op |-> "patch", reference |-> reference, id |-> NoId,
                         status |-> status, http |-> http]
     IN IF matches = {}
        THEN orders' = orders /\ lastOp' = reply(404)
        ELSE \E o \in matches :
               /\ orders' = (orders \ {o}) \cup {StatusUpdates(o, status, now)}
               /\ lastOp' = [reply(200) EXCEPT !.id = o.id]
  /\ UNCHANGED <<variant, now, nextId, sessions, req, submits, verified, workerVars, userVars>>

\* PATCH /api/orders/update/:reference  (socketio revision only).
\* status.toLowerCase() throws on a missing or non-string status: catch, 500.
\* findOneAndUpdate changes one matching document; which one, when several
\* carry the reference, is the store's choice.
UpdateStatus(reference, status) ==
  /\ variant = "socketio"
  /\ ops < MaxOps
  /\ ops' = ops + 1
  /\ LET matches == {o \in orders : o.reference = reference}
         reply(http) == [op |-> "patch", reference |-> reference, id |-> NoId,
                         status |-> status, http |-> http]
     IN IF ~HasToLowerCase(status)
        THEN orders' = orders /\ lastOp' = reply(500)
        ELSE IF matches = {}
        THEN orders' = orders /\ lastOp' = reply(404)
        ELSE \E o \in matches :
               /\ orders' = (orders \ {o}) \cup {StatusUpdates(o, status, now)}
               /\ lastOp' = [reply(200) EXCEPT !.id = o.id]
  /\ UNCHANGED <<variant, now, nextId, sessions, req, submits, verified, workerVars, userVars>>

\* A GET/DELETE/PATCH order handler returns after its response.
OpReturn ==
  /\ lastOp.op # "none"
  /\ lastOp' = NoOp
  /\ UNCHANGED <<variant, now, orders, nextId, sessions, req, submits, verified, ops, workerVars, userVars>>

(* --------------------------- specifications --------------------------- *)
\* Spec: the verify pipeline with the dashboard sessions coming and going.
Next ==
  \/ \E i \in Slots : HandlerReturn(i)
  \/ NoneReturning /\ \E s \in Sockets : Connect(s)
  \/ NoneReturning /\ \E s \in Sockets : Disconnect(s)
  \/ NoneReturning /\ \E i \in Slots, reference \in References \cup {Undefined},
        orderData \in OrderDatas : Receive(i, reference, orderData)
  \/ NoneReturning /\ \E i \in Slots, g \in GatewayOutcomes : GatewayReturn(i, g)
  \/ NoneReturning /\ \E i \in Slots, ok \in BOOLEAN : SaveReturn(i, ok)
  \/ NoneReturning /\ \E i \in Slots, ok \in BOOLEAN : SmsReturn(i, ok)
  \/ NoneReturning /\ \E i \in Slots, ok \in BOOLEAN : PushReturn(i, ok)

Spec == Init /\ [][Next]_vars

\* SpecLive: the verify handlers alone (no dashboard session connects), with
\* every pending external call of a handler settling (resolving or
\* rejecting) at some time, the continuation after the await then being run
\* by the event loop, and a handler that has responded returning.
HandlerStep(i) ==
  \/ HandlerReturn(i)
  \/ NoneReturning /\ \E g \in GatewayOutcomes : GatewayReturn(i, g)
  \/ NoneReturning /\ \E ok \in BOOLEAN : SaveReturn(i, ok)
  \/ NoneReturning /\ \E ok \in BOOLEAN : SmsReturn(i, ok)
  \/ NoneReturning /\ \E ok \in BOOLEAN : PushReturn(i, ok)

Fairness == \A i \in Slots : WF_vars(HandlerStep(i))

NextLive ==
  \/ \E i \in Slots : HandlerStep(i)
  \/ NoneReturning /\ \E i \in Slots, reference \in References \cup {Undefined},
        orderData \in OrderDatas : Receive(i, reference, orderData)

SpecLive == Init /\ [][NextLive]_vars /\ Fairness

\* SpecStore: the clock and the order maintenance routes, interleaved with
\* one verify handler at a time.
StoreOrderDatas == {od \in OrderDatas : od.present}
StoreGatewayOutcomes ==
  {g \in GatewayOutcomes : g.hasData /\ g.hasCustomer}

NextStore ==
  \/ HandlerReturn(1)
  \/ OpReturn
  \/ NoneReturning /\ Tick
  \/ /\ NoneReturning
     /\ submits < MaxStoreSubmits
     /\ \E reference \in References, orderData \in StoreOrderDatas :
          Receive(1, reference, orderData)
  \/ NoneReturning /\ \E g \in StoreGatewayOutcomes : GatewayReturn(1, g)
  \/ NoneReturning /\ \E ok \in BOOLEAN : SaveReturn(1, ok)
  \/ NoneReturning /\ SmsReturn(1, TRUE)
  \/ NoneReturning /\ PushReturn(1, TRUE)
  \/ NoneReturning /\ \E reference \in References : GetOrder(reference)
  \/ NoneReturning /\ \E id \in OrderIds \cup {MalformedId} : DeleteOrder(id)
  \/ NoneReturning /\ \E reference \in References, status \in PatchStatuses :
        UpdateStatus(reference, status)

SpecStore == Init /\ [][NextStore]_vars

\* SpecMaint: the order maintenance routes over a store that paid
\* submissions, one handler at a time, fill with up to MaxMaintSubmits orders.
PlainOrderData ==
  [present |-> TRUE, name |-> "Ada", totalAmount |-> 2,
   status |-> Undefined, createdAt |-> NoTime]

PaidOutcome == GatewayBody(TRUE, TRUE, "success", 200, TRUE)

NextMaint ==
  \/ HandlerReturn(1)
  \/ OpReturn
  \/ NoneReturning /\ Tick
  \/ /\ NoneReturning
     /\ submits < MaxMaintSubmits
     /\ \E reference \in References : Receive(1, reference, PlainOrderData)
  \/ NoneReturning /\ GatewayReturn(1, PaidOutcome)
  \/ NoneReturning /\ SaveReturn(1, TRUE)
  \/ NoneReturning /\ SmsReturn(1, TRUE)
  \/ NoneReturning /\ PushReturn(1, TRUE)
  \/ NoneReturning /\ \E reference \in References : GetOrder(reference)
  \/ NoneReturning /\ \E id \in OrderIds \cup {MalformedId} : DeleteOrder(id)
  \/ NoneReturning /\ \E reference \in References, status \in PatchStatuses :
        UpdateStatus(reference, status)

SpecMaint == Init /\ [][NextMaint]_vars

(* --------------------------- service worker ---------------------------- *)
\* url.pathname.startsWith("/api/")
StartsWithApi(path) == Len(path) >= 2 /\ path[1] = "api"

\* Mutant: the fetch listener has no pass-through branch.
PassThrough_Never(request) == FALSE

\* The test of the fetch listener's first branch.
PassThrough(request) ==
  StartsWithApi(request.path) \/ request.origin # "self"

\* caches.match(request): a GET request matches an entry with its URL in any
\* cache of the origin; a request with another method matches nothing.
CacheMatch(cs, request) ==
  /\ request.method = "GET"
  /\ \E name \in DOMAIN cs : Entry(request) \in cs[name]

\* caches.open(name): the cache, created empty when the origin has none.
CachesOpen(cs, name) ==
  IF name \in DOMAIN cs THEN cs ELSE cs @@ (name :> {})

\* caches.open(name).then(cache => cache.put(request, copy))
CachePut(cs, name, request) ==
  [CachesOpen(cs, name) EXCEPT ![name] = @ \cup {Entry(request)}]

\* The condition under which the fetched response is put in the cache.
Cacheable(request, response) ==
  /\ request.method = "GET"
  /\ response.ok /\ response.status = 200 /\ response.type = "basic"

\* What the catch of a failed fetch answers with: caches.match(path) in the
\* v2 script, which yields no response when the page is not cached.
CachedPage(cs, path) ==
  IF CacheMatch(cs, [origin |-> "self", path |-> path, method |-> "GET"])
  THEN [from |-> "offline", status |-> 200]
  ELSE [from |-> "error", status |-> 0]

\* The answer to a pass-through request.
PassThroughAnswer(name, cs, network) ==
  IF network.ok THEN [from |-> "network", status |-> network.status]
  ELSE IF name = "tastybite-cache-v2" THEN CachedPage(cs, OfflinePath)
  ELSE [from |-> "offline", status |-> 503]

\* The answer to any other request: cache first, then the network.
StaticAnswer(name, cs, request, network) ==
  IF CacheMatch(cs, request) THEN [from |-> "cache", status |-> 200]
  ELSE IF network.ok THEN [from |-> "network", status |-> network.status]
  ELSE IF name = "tastybite-cache-v2" THEN CachedPage(cs, IndexPath)
  ELSE [from |-> "error", status |-> 0]

\* "install": cache.addAll(ASSETS) adds all assets or, when one of them
\* cannot be fetched, none; the worker is then discarded.
Install(ok) ==
  /\ swState = "parsed"
  /\ caches' = IF ok
               THEN [CachesOpen(caches, CACHE_NAME) EXCEPT
                       ![CACHE_NAME] = @ \cup AssetEntries]
               ELSE CachesOpen(caches, CACHE_NAME)
  /\ swState' = IF ok THEN "installed" ELSE "redundant"
  /\ UNCHANGED <<CACHE_NAME, lastFetch, serverVars, userVars>>

\* "activate": every cache with another name is deleted.
Activate ==
  /\ swState = "installed"
  /\ caches' = [name \in DOMAIN caches \cap {CACHE_NAME} |-> caches[name]]
  /\ swState' = "activated"
  /\ UNCHANGED <<CACHE_NAME, lastFetch, serverVars, userVars>>

\* "fetch": the listener answers the request; `network` is what
\* fetch(event.request) settles to if the listener calls it.
Fetch(request, network) ==
  /\ swState = "activated"
  /\ network.ok => network.type \in ResponseTypes(request)
  /\ LET answer == IF PassThrough(request)
                   THEN PassThroughAnswer(CACHE_NAME, caches, network)
                   ELSE StaticAnswer(CACHE_NAME, caches, request, network)
     IN /\ lastFetch' = [request |-> request, network |-> network,
                         from |-> answer.from, status |-> answer.status]
        /\ caches' = IF /\ ~PassThrough(request)
                        /\ answer.from = "network"
                        /\ Cacheable(request, network)
                     THEN CachePut(caches, CACHE_NAME, request)
                     ELSE caches
  /\ UNCHANGED <<CACHE_NAME, swState, serverVars, userVars>>

\* SpecWorker: one of the two scripts is registered on an origin whose
\* CacheStorage an earlier script may have filled.
InitWorker ==
  /\ variant = "socketio"
  /\ ServerIdle
  /\ UsersIdle
  /\ CACHE_NAME \in WorkerVariants
  /\ swState = "parsed"
  /\ caches \in EarlierCaches
  /\ lastFetch = NoFetch

NextWorker ==
  \/ \E ok \in BOOLEAN : Install(ok)
  \/ Activate
  \/ \E request \in Requests, network \in NetworkOutcomes : Fetch(request, network)

SpecWorker == InitWorker /\ [][NextWorker]_vars

(* --------------------- POST /api/users/register ----------------------- *)
RegRespond(r, status, message) ==
  [r EXCEPT !.pc = "done", !.res = [status |-> status, message |-> message]]

\* The handler's catch block.
RegCatch(r, error) ==
  [RegRespond(r, 500, "Server error") EXCEPT !.error = error]

\* Handler entry up to the await on User.findOne.  `complete` says that
\* name, username, role and password are all in the body.
RegisterReceive(i, username, complete) ==
  /\ reg[i].pc = "idle"
  /\ registers < MaxRegisters
  /\ registers' = registers + 1
  /\ LET r == [IdleReg EXCEPT !.username = username]
     IN reg' = [reg EXCEPT ![i] =
                  IF complete THEN [r EXCEPT !.pc = "finding"]
                  ELSE RegRespond(r, 400, "All fields are required")]
  /\ UNCHANGED <<users, nextUserId, usernameUnique, serverVars, workerVars>>

\* await User.findOne({ username }) settles; the handler runs up to the
\* await on user.save().
FindReturn(i, ok) ==
  /\ reg[i].pc = "finding"
  /\ LET r == reg[i]
         existingUser == \E u \in users : u.username = r.username
     IN IF ~ok
        THEN reg' = [reg EXCEPT ![i] = RegCatch(r, "store")]
             /\ nextUserId' = nextUserId
        ELSE IF existingUser
        THEN reg' = [reg EXCEPT ![i] =
                       RegRespond(r, 400, "Username already exists")]
             /\ nextUserId' = nextUserId
        ELSE reg' = [reg EXCEPT ![i] =
                       [r EXCEPT !.pc = "saving",
                                 !.user = [id |-> nextUserId,
                                           username |-> r.username]]]
             /\ nextUserId' = nextUserId + 1
  /\ UNCHANGED <<users, registers, usernameUnique, serverVars, workerVars>>

\* await user.save() settles.  With a unique index on username the insert
\* of a second document with the username is rejected.
UserSaveReturn(i, ok) ==
  /\ reg[i].pc = "saving"
  /\ LET r == reg[i]
         duplicate == /\ usernameUnique
                      /\ \E u \in users : u.username = r.username
     IN IF ~ok
        THEN users' = users /\ reg' = [reg EXCEPT ![i] = RegCatch(r, "store")]
        ELSE IF duplicate
        THEN users' = users
             /\ reg' = [reg EXCEPT ![i] = RegCatch(r, "duplicate-key")]
        ELSE users' = users \cup {r.user}
             /\ reg' = [reg EXCEPT ![i] =
                          RegRespond(r, 200, "User registered successfully")]
  /\ UNCHANGED <<nextUserId, registers, usernameUnique, serverVars, workerVars>>

\* The register handler returns after its response.
RegisterReturn(i) ==
  /\ reg[i].pc = "done"
  /\ reg' = [reg EXCEPT ![i] = IdleReg]
  /\ UNCHANGED <<users, nextUserId, registers, usernameUnique, serverVars, workerVars>>

\* SpecUsers: register handlers interleaving at their awaits.  The User
\* schema is not part of the sources: its username may or may not carry a
\* unique index.
InitUsers ==
  /\ variant = "socketio"
  /\ ServerIdle
  /\ WorkerIdle
  /\ users = {}
  /\ reg = [i \in Slots |-> IdleReg]
  /\ nextUserId = 1
  /\ registers = 0
  /\ usernameUnique \in BOOLEAN

NextUsers ==
  \/ \E i \in Slots, username \in Usernames, complete \in BOOLEAN :
       RegisterReceive(i, username, complete)
  \/ \E i \in Slots, ok \in BOOLEAN : FindReturn(i, ok)
  \/ \E i \in Slots, ok \in BOOLEAN : UserSaveReturn(i, ok)
  \/ \E i \in Slots : RegisterReturn(i)

SpecUsers == InitUsers /\ [][NextUsers]_vars

(* ------------------------------ the claims ----------------------------- *)
\* The gateway has answered request i (or its call has thrown).
Answered(i) == req[i].gateway # NotCalled

\* Request i has issued none of its notifications.
Silent(i) ==
  req[i].push = "none" /\ req[i].sms = "none" /\ req[i].emitted = <<>>

\* No verify handler is between its first and its last step.
Quiescent == \A i \in Slots : req[i].pc \in {"idle", "done"}

\* C1: a submission whose gateway answer does not report status "success"
\* creates no Order: every step of its handler from that answer on leaves the
\* order store as it was, and the handler holds no order document.
C1_NoOrderWithoutSuccess ==
  [][\A i \in Slots :
       (req'[i] # req[i] /\ req'[i].gateway # NotCalled
          /\ req'[i].gateway.status # "success")
       => (orders' = orders /\ ~req'[i].saved /\ req'[i].order = NoOrder)]_vars

C1_Witness ==
  \E i \in Slots :
    /\ req[i].pc = "done"
    /\ req[i].gateway.status = "failed"
    /\ req[i].res.status = 400
    /\ \A o \in orders : o.id # req[i].order.id

\* C2: a submission the gateway reports success for, once saved, has put
\* exactly one Order in the store, with status "paid" and totalAmount equal to
\* the gateway's amount divided by 100, whatever orderData carried.
C2_PaidWithGatewayAmount ==
  \A i \in Slots :
    (GatewaySuccess(req[i].gateway) /\ req[i].saved)
    => /\ Cardinality({o \in orders : o.id = req[i].order.id}) = 1
       /\ \A o \in orders :
            o.id = req[i].order.id
            => (o.status = "paid"
                /\ o.totalAmount * 100 = req[i].gateway.amount)

\* C3 (as claimed): with no handler in flight, an order with a reference is
\* in the store if and only if a payment verification for it succeeded.
C3_OrderIffVerified ==
  Quiescent
  => \A reference \in References :
       (\E o \in orders : o.reference = reference) <=> reference \in verified

\* C3 (amended): an order with a reference is in the store only if a payment
\* verification for that reference succeeded.
C3_OrderOnlyIfVerified ==
  \A o \in orders : o.reference \in verified

C3_Witness ==
  /\ lastOp.op = "patch" /\ lastOp.http = 200
  /\ \E o \in orders : o.id = lastOp.id /\ o.reference \in verified
  /\ verified # References

\* C4: a submission without reference or without orderData is answered 400
\* with success=false, with no gateway call, no order and no notification.
C4_MissingInputRejected ==
  \A i \in Slots :
    (req[i].pc # "idle"
       /\ (req[i].reference = Undefined \/ ~req[i].orderData.present))
    => /\ req[i].pc = "done"
       /\ req[i].res = [status |-> 400, success |-> FALSE]
       /\ ~req[i].gwCalled
       /\ req[i].order = NoOrder /\ ~req[i].saved
       /\ Silent(i)

SaveFailed(i) ==
  req[i].pc = "done" /\ req[i].order # NoOrder /\ ~req[i].saved

C6_SaveFailureIs500 ==
  \A i \in Slots :
    SaveFailed(i)
    => /\ req[i].res = [status |-> 500, success |-> FALSE]
       /\ \A o \in orders : o.id # req[i].order.id
       /\ Silent(i)

C6_Witness ==
  \E i \in Slots : SaveFailed(i) /\ GatewaySuccess(req[i].gateway)

\* C7: once the order is saved, a failed push or SMS call neither removes
\* the order from the store nor keeps the response from being success=true.
C7_NotificationFailureContained ==
  \A i \in Slots :
    (req[i].saved /\ (req[i].push = "failed" \/ req[i].sms = "failed"))
    => /\ req[i].order \in orders
       /\ req[i].pc = "done" => req[i].res = [status |-> 200, success |-> TRUE]

C7_Witness ==
  \E i \in Slots :
    req[i].pc = "done" /\ req[i].saved /\ req[i].push = "failed"

\* C8: a handler that has created its order and answers success has emitted
\* exactly one "newOrder" event, carrying the order's customer, amount,
\* reference, createdAt and status, to every session connected at the emit.
C8_OneNewOrderEvent ==
  \A i \in Slots :
    (req[i].pc = "done" /\ req[i].saved)
    => /\ Len(req[i].emitted) = 1
       /\ req[i].emitted[1] = NewOrderEvent(req[i].order, sessions)

\* C9: a push call, an SMS call or a broadcast of a submission happens only
\* after its order write has succeeded; a submission rejected with 400 has
\* issued none of them.
C9_NotifyOnlyAfterSave ==
  \A i \in Slots :
    /\ ~Silent(i) => (req[i].saved /\ req[i].order \in orders)
    /\ (req[i].pc = "done" /\ req[i].res.status = 400) => Silent(i)

C9_Witness ==
  \E i \in Slots : req[i].saved /\ req[i].push = "pending"

\* C10: a PATCH that finds its order, with a status equal to "delivered"
\* whatever the case, sets deliveredAt to a time not before createdAt; with a
\* status equal to "dispatched" it sets dispatchedAt and leaves an unset
\* deliveredAt unset.
C10_DeliveredNotBeforeCreated ==
  [][(lastOp.op = "none" /\ lastOp'.op = "patch" /\ lastOp'.http = 200)
     => \A before \in orders, after \in orders' :
          (before.id = lastOp'.id /\ after.id = lastOp'.id)
          => /\ ToLowerCase(lastOp'.status) = "delivered"
                => (after.deliveredAt # NoTime
                    /\ after.deliveredAt >= after.createdAt)
             /\ ToLowerCase(lastOp'.status) = "dispatched"
                => (after.dispatchedAt # NoTime
                    /\ (before.deliveredAt = NoTime
                        => after.deliveredAt = NoTime))]_vars

\* C11: two submissions with the same reference whose handlers run
\* concurrently and whose saves both resolve are not told apart by any
\* uniqueness check: the store holds two distinct order documents with that
\* reference, one per handler, and each handler that answers, answers
\* 200 with success=true.
C11_DuplicateReferenceStoredTwice ==
  \A i \in Slots, j \in Slots :
    (i # j /\ req[i].saved /\ req[j].saved
       /\ req[i].reference = req[j].reference)
    => /\ req[i].order \in orders /\ req[j].order \in orders
       /\ req[i].order.id # req[j].order.id
       /\ req[i].order.reference = req[i].reference
       /\ req[j].order.reference = req[i].reference
       /\ req[i].pc = "done" => req[i].res = [status |-> 200, success |-> TRUE]

C11_Witness ==
  /\ req[1].reference = req[2].reference
  /\ req[1].saved /\ req[2].saved
  /\ GatewaySuccess(req[1].gateway) /\ GatewaySuccess(req[2].gateway)
  /\ req[2].pc = "done" /\ req[2].res.success
  /\ req[1].order.id > req[2].order.id

\* A GET, DELETE or PATCH order request is served in this step.
OpStep == lastOp.op = "none" /\ lastOp'.op # "none"

\* The order the request `op` targets is in the store: by _id for a delete,
\* by reference for a lookup and a status update.
TargetInStore(op) ==
  IF op.op = "delete" THEN \E o \in orders : o.id = op.id
  ELSE \E o \in orders : o.reference = op.reference

\* The delete `op` of this step has removed the one document with its _id.
RemovesExactlyTarget(op) ==
  \E o \in orders : o.id = op.id /\ orders' = orders \ {o}

Unprocessable(op) ==
  \/ op.op = "patch" /\ op.status \in {Undefined, NonStringStatus}
  \/ op.op = "delete" /\ op.id = MalformedId

C13_UpdateStatusFrame ==
  [][(OpStep /\ lastOp'.op = "patch" /\ lastOp'.http = 200)
     => \E o \in orders, n \in orders' :
          /\ o.id = lastOp'.id /\ n.id = o.id
          /\ orders' \ {n} = orders \ {o}
          /\ n.status = lastOp'.status
          /\ n.createdAt = o.createdAt
          /\ n.name = o.name /\ n.totalAmount = o.totalAmount
          /\ n.reference = o.reference
          /\ ToLowerCase(lastOp'.status) # "delivered"
             => n.deliveredAt = o.deliveredAt
          /\ ToLowerCase(lastOp'.status) # "dispatched"
             => n.dispatchedAt = o.dispatchedAt]_vars

C13_Witness ==
  /\ lastOp.op = "patch" /\ lastOp.http = 200
  /\ lastOp.status = "processing"
  /\ Cardinality(orders) = 2
  /\ \E o \in orders :
       /\ o.id = lastOp.id
       /\ o.deliveredAt # NoTime /\ o.deliveredAt < now
       /\ o.status = "processing"

\* C17: a status update whose body carries no status, or a status that is
\* no string, is answered 500 and leaves every order in the store unchanged,
\* whether or not its reference matches an order.
C17_NoStatusIs500 ==
  [][(OpStep /\ lastOp'.op = "patch"
        /\ lastOp'.status \in {Undefined, NonStringStatus})
     => (lastOp'.http = 500 /\ orders' = orders)]_vars

C17_Witness ==
  /\ lastOp.op = "patch" /\ lastOp.http = 500
  /\ lastOp.status = Undefined
  /\ \E o \in orders : o.reference = lastOp.reference /\ o.status = "paid"
  /\ \E o \in orders : o.reference # lastOp.reference

\* C14: within one submission a failed SMS call does not keep the push call
\* from being attempted, and after a failed SMS or push call the handler
\* still emits its broadcast and answers 200 with success=true.
C14_FailuresIndependent ==
  \A i \in Slots :
    /\ req[i].sms = "failed" => req[i].push # "none"
    /\ (req[i].pc = "done" /\ (req[i].sms = "failed" \/ req[i].push = "failed"))
       => /\ Len(req[i].emitted) = 1
          /\ req[i].res = [status |-> 200, success |-> TRUE]

\* The notification calls of request i have all settled: the push call and,
\* in the revision that sends one, the SMS.
NotificationsAttempted(i) ==
  /\ req[i].push \in {"ok", "failed"}
  /\ variant = "server" => req[i].sms \in {"ok", "failed"}

\* Request i has sent exactly one response if it has finished, none before.
OneResponse(i) ==
  /\ req[i].sent <= 1
  /\ req[i].sent = 1 <=> req[i].pc = "done"
  /\ req[i].sent = 1 <=> req[i].res.status # 0
  /\ req[i].pc = "done" => req[i].res.status \in {200, 400, 500}
  /\ req[i].res.success <=> req[i].res.status = 200

\* C15: every submission eventually reaches its one response, provided every
\* external call it awaits settles; no handler sends two responses; the
\* success response is sent only once the order is in the store and the
\* notification calls have settled.
C15_ExactlyOneResponse ==
  /\ [](\A i \in Slots :
          /\ OneResponse(i)
          /\ (req[i].pc = "done" /\ req[i].res.success)
             => (req[i].saved /\ req[i].order \in orders
                 /\ NotificationsAttempted(i)))
  /\ \A i \in Slots : (req[i].pc # "idle") ~> (req[i].pc = "done")

C15_Witness ==
  \E i \in Slots :
    /\ req[i].pc = "done" /\ req[i].sent = 1
    /\ req[i].res = [status |-> 200, success |-> TRUE]
    /\ req[i].gwCalled /\ req[i].saved /\ NotificationsAttempted(i)

\* The entries of the worker's own cache.
OwnCache == IF CACHE_NAME \in DOMAIN caches THEN caches[CACHE_NAME] ELSE {}

\* A same-origin entry whose path does not start with "/api/".
StaticEntry(e) == e.origin = "self" /\ ~StartsWithApi(e.path)

\* A request whose path starts with "/api/" or whose origin is not the
\* worker's.
ApiOrForeign(request) ==
  StartsWithApi(request.path) \/ request.origin # "self"

\* The last fetch event, if it was for an API or foreign request, was
\* answered from the network, or by the fallback when the network failed.
ApiFromNetwork(f) ==
  (f.from # "none" /\ ApiOrForeign(f.request))
  => /\ f.from # "cache"
     /\ f.network.ok => (f.from = "network" /\ f.status = f.network.status)
     /\ ~f.network.ok => f.from \in {"offline", "error"}

\* C16 (as claimed): once the worker is installed and activated, its cache
\* holds only same-origin entries whose path does not start with "/api/",
\* and a request to "/api/" or to another origin is answered from the
\* network, or by the offline fallback, never from the cache.
C16_CacheHoldsNoApi ==
  swState = "activated"
  => /\ \A e \in OwnCache : StaticEntry(e)
     /\ ApiFromNetwork(lastFetch)

\* C16 (amended): no install, activate or fetch event of the worker adds an
\* entry for an "/api/" path or another origin to any cache, and a fetch
\* event for such a request leaves the caches as they are and is answered
\* from the network, or by the offline fallback when the network fails; the
\* activated v3 worker's caches hold only same-origin non-API entries.  (The
\* v2 worker's cache keeps what an earlier script put under the same name.)
C16_NoApiWrittenToCache ==
  [][/\ \A name \in DOMAIN caches' :
          \A e \in caches'[name] :
            (name \notin DOMAIN caches \/ e \notin caches[name])
            => StaticEntry(e)
     /\ (lastFetch' # lastFetch /\ ApiOrForeign(lastFetch'.request))
        => caches' = caches
     /\ ApiFromNetwork(lastFetch')
     /\ (CACHE_NAME = "tastybite-cache-v3" /\ swState' = "activated")
        => \A name \in DOMAIN caches' : \A e \in caches'[name] : StaticEntry(e)
    ]_vars

C16_Witness ==
  /\ swState = "activated"
  /\ lastFetch.request = [origin |-> "self", path |-> <<"api", "orders">>,
                          method |-> "GET"]
  /\ lastFetch.network = [ok |-> TRUE, status |-> 200, type |-> "basic"]
  /\ lastFetch.from = "network"
  /\ [origin |-> "self", path |-> <<"menu.html">>] \in OwnCache
  /\ Entry(lastFetch.request) \notin OwnCache

\* C18: no two stored users share a username, and a registration that ends
\* while its username is taken, the store calls not failing, is answered 400
\* "Username already exists" and adds no user, whatever other registration was
\* in flight between its existence check and its save.
C18_UsernamesUnique ==
  [][/\ \A u1 \in users', u2 \in users' :
          u1.username = u2.username => u1.id = u2.id
     /\ \A i \in Slots :
          (/\ reg[i].pc \in {"finding", "saving"}
           /\ reg'[i].pc = "done" /\ reg'[i].error # "store"
           /\ \E u \in users : u.username = reg[i].username)
          => /\ reg'[i].res = [status |-> 400,
                               message |-> "Username already exists"]
             /\ users' = users]_vars

====
